---- MODULE Spec2Model ----
(***************************************************************************)
(* A model of openwhisk-wasm-runtime/src/wasmtime.rs: one invocation of    *)
(* execute_wasm, from the serialization of the parameters to the value it  *)
(* returns (or the panic / fault that ends it).                            *)
(*                                                                         *)
(* Bytes are one-character strings; a byte string is a sequence of them.   *)
(* JSON values are records tagged by the field t:                          *)
(*   [t |-> "num", n |-> 5]      [t |-> "str", s |-> <<"x">>]              *)
(*   [t |-> "obj0"]  (the object {})                                      *)
(*   [t |-> "obj", k |-> <<"O","k">>, v |-> value]  (an object, one key)   *)
(* Objects of two and more keys are outside the model: no byte string of   *)
(* the model contains a comma.                                             *)
(***************************************************************************)
EXTENDS Integers, Sequences, FiniteSets, TLC

\* The size, in bytes, of the guest's exported linear memory.
MemSize == 18

\* i32::MAX, the largest value `as i32` leaves unchanged.
MaxI32 == 2147483647

\* The byte 0x00 of freshly allocated linear memory.
Nul == "@"
Quote == "\""

Num(n) == [t |-> "num", n |-> n]
Str(s) == [t |-> "str", s |-> s]
Obj0 == [t |-> "obj0"]
Obj(k, v) == [t |-> "obj", k |-> k, v |-> v]

OkTag == <<"O", "k">>
ErrTag == <<"E", "r", "r">>

Min(S) == CHOOSE x \in S : \A y \in S : x <= y

Digits == <<"0", "1", "2", "3", "4", "5", "6", "7", "8", "9">>
IsDigit(c) == \E d \in 1..10 : Digits[d] = c
DigitVal(c) == (CHOOSE d \in 1..10 : Digits[d] = c) - 1

\* format!("{}", n) and serde_json's integer output: the decimal digits of n.
RECURSIVE Decimal(_)
Decimal(n) == IF n < 10 THEN <<Digits[n + 1]>>
              ELSE Decimal(n \div 10) \o <<Digits[(n % 10) + 1]>>

\* serde_json::to_vec of a Value: compact, no whitespace.
RECURSIVE ToVec(_)
ToVec(v) ==
    IF v.t = "num" THEN Decimal(v.n)
    ELSE IF v.t = "str" THEN <<Quote>> \o v.s \o <<Quote>>
    ELSE IF v.t = "obj0" THEN <<"{", "}">>
    ELSE <<"{", Quote>> \o v.k \o <<Quote, ":">> \o ToVec(v.v) \o <<"}">>

Fail == [ok |-> FALSE]

\* serde_json skips whitespace between tokens.
RECURSIVE SkipWs(_, _)
SkipWs(b, i) == IF i <= Len(b) /\ b[i] = " " THEN SkipWs(b, i + 1) ELSE i

\* The digits of a number starting at i; JSON forbids a leading zero.
ParseDigits_OneDigit(b, i, acc) ==
    [ok |-> TRUE, val |-> Num(DigitVal(b[i])), next |-> i + 1]
RECURSIVE ParseDigits(_, _, _)
ParseDigits(b, i, acc) ==
    IF i <= Len(b) /\ IsDigit(b[i])
    THEN ParseDigits(b, i + 1, acc * 10 + DigitVal(b[i]))
    ELSE [ok |-> TRUE, val |-> Num(acc), next |-> i]

ParseNumber(b, i) ==
    IF b[i] = "0"
    THEN IF i + 1 <= Len(b) /\ IsDigit(b[i + 1]) THEN Fail
         ELSE [ok |-> TRUE, val |-> Num(0), next |-> i + 1]
    ELSE ParseDigits(b, i, 0)

\* A string starting at the quote b[i]: up to the next quote; a control
\* character inside a string is an error.
ParseString(b, i) ==
    LET ends == {j \in (i + 1)..Len(b) : b[j] = Quote} IN
    IF ends = {} THEN Fail
    ELSE LET j == Min(ends)
             s == SubSeq(b, i + 1, j - 1) IN
         IF \E x \in 1..Len(s) : s[x] = Nul THEN Fail
         ELSE [ok |-> TRUE, val |-> Str(s), next |-> j + 1]

\* serde_json's parser of one Value starting at or after position i.
RECURSIVE ParseValue(_, _)
ParseValue(b, i) ==
    LET j == SkipWs(b, i) IN
    IF j > Len(b) THEN Fail
    ELSE IF IsDigit(b[j]) THEN ParseNumber(b, j)
    ELSE IF b[j] = Quote THEN ParseString(b, j)
    ELSE IF b[j] = "{" THEN
        LET k == SkipWs(b, j + 1) IN
        IF k > Len(b) THEN Fail
        ELSE IF b[k] = "}" THEN [ok |-> TRUE, val |-> Obj0, next |-> k + 1]
        ELSE IF b[k] = Quote THEN
            LET key == ParseString(b, k) IN
            IF ~key.ok THEN Fail
            ELSE LET c == SkipWs(b, key.next) IN
                 IF c > Len(b) \/ b[c] # ":" THEN Fail
                 ELSE LET val == ParseValue(b, c + 1) IN
                      IF ~val.ok THEN Fail
                      ELSE LET e == SkipWs(b, val.next) IN
                           IF e > Len(b) \/ b[e] # "}" THEN Fail
                           ELSE [ok |-> TRUE, val |-> Obj(key.val.s, val.val),
                                 next |-> e + 1]
        ELSE Fail
    ELSE Fail

Success(v) == [kind |-> "Success", val |-> v]
Failure(v) == [kind |-> "Failure", val |-> v]
DecodeError == [kind |-> "DecodeError"]

\* The variant a decoded object of one key stands for: serde's externally
\* tagged Result, {"Ok": v} or {"Err": v}; any other key is an unknown variant.
VariantOf_ByShape(o) ==
    IF o.v.t = "obj" /\ o.v.k = ErrTag THEN Failure(o.v)
    ELSE IF o.v.t = "obj" /\ o.v.k = OkTag THEN Success(o.v)
    ELSE IF o.k = OkTag THEN Success(o.v)
    ELSE IF o.k = ErrTag THEN Failure(o.v)
    ELSE DecodeError
VariantOf(o) ==
    IF o.k = OkTag THEN Success(o.v)
    ELSE IF o.k = ErrTag THEN Failure(o.v)
    ELSE DecodeError

\* serde_json::from_slice::<Result<Value, Value>>: one value, then only
\* whitespace up to the end of the slice.
FromSlice(b) ==
    LET p == ParseValue(b, 1) IN
    IF ~p.ok THEN DecodeError
    ELSE IF SkipWs(b, p.next) # Len(b) + 1 THEN DecodeError
    ELSE IF p.val.t # "obj" THEN DecodeError
    ELSE VariantOf(p.val)


(***************************************************************************)
(* The invocation.                                                         *)
(***************************************************************************)
VARIABLES
    pc,          \* the statement of execute_wasm (and its callees) to run next
    action,      \* wasm_action: the module's properties and its capabilities
    parameters,  \* the caller's input value
    json_bytes,  \* serde_json::to_vec(&parameters)
    fs,          \* the host's directories, each a path (a sequence of names)
    fsMode,      \* "ok", "readonly" (no directory can be created), "noread"
    ctx,         \* the WasiCtx built: its arguments and pre-opened directories
    mem,         \* the guest's exported memory `memory`
    gbuf,        \* the buffer the guest reports: [ptr, len]
    allocArg,    \* the argument of wasm_memory_buffer_allocate_space
    O,           \* memory_buffer_offset (line 76)
    L2,          \* memory_buf_len (line 107)
    O2,          \* memory_ptr_offset (line 109)
    slice,       \* the bytes seen through wasm_mem_slice (line 113)
    result,      \* what the invocation ended with
    trace,       \* the operations performed so far, in order
    trapped,     \* the guest call that trapped, or "none"
    fsFailed,    \* the directory operation that failed, or "none"
    oob,         \* a byte outside the guest's memory was addressed
    wide,        \* the length computations on an input of any usize length
    codec,       \* an outcome, its encoding and the decoding of that
    invs         \* the invocations running side by side on one host

\* The state of the studies of a single computation (the lengths, the
\* codec, several invocations), which an invocation of Spec leaves alone.
auxVars == <<wide, codec, invs>>

vars == <<pc, action, parameters, json_bytes, fs, fsMode, ctx, mem, gbuf,
          allocArg, O, L2, O2, slice, result, trace, trapped, fsFailed, oob,
          wide, codec, invs>>

AllocateSpaceName == "wasm_memory_buffer_allocate_space"
GetPointerName == "get_wasm_memory_buffer_pointer"
GetLenName == "get_wasm_memory_buffer_len"
MemoryName == "memory"
StartName == "_start"
AllExports == {AllocateSpaceName, GetPointerName, GetLenName, MemoryName, StartName}

NoResult == [kind |-> "none"]
Err(msg) == [kind |-> "Err", msg |-> msg]
Panic(line) == [kind |-> "panic", at |-> line]
Fault == [kind |-> "fault"]
MissingExport(name) == Err(<<"missing export", name>>)

\* The statements of execute_wasm in program order, the callees' inlined.
PcOrder_PointerBeforeLen ==
    <<"serialize", "build_ctx", "add_to_linker", "compile", "instantiate",
      "get_default", "alloc", "get_ptr", "get_mem", "copy_in", "call_main",
      "ret_lookup", "ret_ptr", "ret_len", "ret_mem", "ret_decode", "done">>

PcOrder_MemoryBeforePointer ==
    <<"serialize", "build_ctx", "add_to_linker", "compile", "instantiate",
      "get_default", "alloc", "get_mem", "get_ptr", "copy_in", "call_main",
      "ret_lookup", "ret_len", "ret_ptr", "ret_mem", "ret_decode", "done">>

PcOrder ==
    <<"serialize", "build_ctx", "add_to_linker", "compile", "instantiate",
      "get_default", "alloc", "get_ptr", "get_mem", "copy_in", "call_main",
      "ret_lookup", "ret_len", "ret_ptr", "ret_mem", "ret_decode", "done">>

Succ(p) == PcOrder[(CHOOSE i \in 1..Len(PcOrder) : PcOrder[i] = p) + 1]

Step == pc' = Succ(pc) /\ UNCHANGED result
Finish(r) == pc' = "done" /\ result' = r
Log(events) == trace' = trace \o events

\* `n as i32` of a usize: the low 32 bits, as a signed number.
AsI32(n) == IF n <= MaxI32 THEN n ELSE n - MaxI32 - MaxI32 - 2

InBounds(o, n) == 0 <= o /\ 0 <= n /\ o + n <= MemSize

\* The n bytes of guest memory at offset o.
MemAt(m, o, n) == [i \in 1..n |-> m[o + i - 1]]

\* Guest memory after `bytes` were stored at offset o (the part inside it).
Write(m, o, bytes) ==
    [i \in 0..(MemSize - 1) |->
        IF o <= i /\ i < o + Len(bytes) THEN bytes[i - o + 1] ELSE m[i]]

\* What a view of n bytes at offset o shows when it leaves the memory: the
\* memory's bytes inside, the byte f wherever it is outside; the view is cut
\* one byte past the end of the memory (a negative n is, `as usize`, a length
\* beyond any memory).
ViewEnd(o, n) == IF n < 0 \/ o + n - 1 > MemSize THEN MemSize ELSE o + n - 1
View(m, o, n, f) ==
    [i \in 1..(ViewEnd(o, n) - o + 1) |->
        IF 0 <= o + i - 1 /\ o + i - 1 < MemSize THEN m[o + i - 1] ELSE f]
Fillers == {Nul, " ", "}"}

RECURSIVE Prefixes(_)
Prefixes(path) ==
    IF path = <<>> THEN {<<>>}
    ELSE {path} \cup Prefixes(SubSeq(path, 1, Len(path) - 1))

\* DirBuilder::new().recursive(true).create(dir): Ok when the directory is
\* there already, else it and its missing ancestors are created.
CanCreate_ErrIfExists(dirs, mode, dir) == dir \notin dirs /\ mode # "readonly"
CanCreate(dirs, mode, dir) == dir \in dirs \/ mode # "readonly"
CreateDirAll_Nothing(dirs, dir) == dirs
CreateDirAll(dirs, dir) == dirs \cup Prefixes(dir)
\* File::open(dir)
CanOpen(dirs, mode, dir) == dir \in dirs /\ mode # "noread"

\* The directories ctx_builder.preopened_dir is called with (lines 49-56).
Preopens_DefaultTmp(dirOpt) == IF dirOpt = {} THEN {<<"tmp">>} ELSE dirOpt
Preopens(dirOpt) == dirOpt


(***************************************************************************)
(* The inputs of an invocation.                                            *)
(***************************************************************************)
FilesysDir == <<"tmp", "filesys">>
DirChoices == {FilesysDir, <<"data">>}
DirOptions == {{}} \cup {{d} : d \in DirChoices}

ParameterChoices == {Obj(<<"a">>, Num(1)), Obj0, Num(5)}

\* A module: whether its bytes compile and link, what it exports, and
\* whether its default export `_start` is a function.
Modules ==
    {[code |-> c, exports |-> AllExports, startIsFunc |-> TRUE] :
        c \in {"malformed", "unlinkable"}}
    \cup {[code |-> "ok", exports |-> AllExports \ m, startIsFunc |-> TRUE] :
            m \in {{}} \cup {{e} : e \in AllExports}}
    \cup {[code |-> "ok", exports |-> AllExports, startIsFunc |-> FALSE]}

\* The host's file system before the invocation: /tmp is there; the declared
\* directory may be.  An invocation without a directory never looks at it.
HostDirs == {{<<>>, <<"tmp">>}, {<<>>, <<"tmp">>, FilesysDir}}
HostModes == {"ok", "readonly", "noread"}

\* The values the guest's functions may report for its buffer: offsets
\* before, inside and past the end of its memory.
PtrChoices == {-1, 0, 1, MemSize - 1, MemSize}
\* Where a guest that runs to completion writes its outcome.
GuestOffsets == {0, 1}

Payloads == {Num(1), Num(10), Str(<<"x">>), Obj(ErrTag, Num(0)), Obj(OkTag, Num(0))}

\* What the guest leaves in its buffer: encoded outcomes, and bytes that
\* are none (cut short, untagged, unknown tag, empty).
GuestOutputs ==
    {ToVec(Obj(OkTag, Num(1))),
     ToVec(Obj(ErrTag, Str(<<"x">>))),
     ToVec(Obj(OkTag, Obj(ErrTag, Num(0)))),
     ToVec(Obj(ErrTag, Obj(OkTag, Num(0)))),
     <<" ">> \o ToVec(Obj(OkTag, Num(10))),
     SubSeq(ToVec(Obj(OkTag, Num(1))), 1, 7),
     ToVec(Num(1)),
     ToVec(Obj(<<"N", "o">>, Num(1))),
     <<>>}

\* How the guest's report after the entry point relates to the outcome of
\* n bytes it wrote at offset o (old: the buffer it reported before).
Reports == {"honest", "stale", "negptr", "oobptr", "neglen", "short", "long"}
Report(kind, o, n, old) ==
    IF kind = "honest" THEN [ptr |-> o, len |-> n]
    ELSE IF kind = "stale" THEN old
    ELSE IF kind = "negptr" THEN [ptr |-> -1, len |-> n]
    ELSE IF kind = "oobptr" THEN [ptr |-> MemSize, len |-> n]
    ELSE IF kind = "neglen" THEN [ptr |-> o, len |-> -1]
    ELSE IF kind = "short" THEN [ptr |-> o, len |-> IF n > 0 THEN n - 1 ELSE 0]
    ELSE [ptr |-> o, len |-> MemSize + 1]

\* Nothing under study besides the one invocation.
AuxParked ==
    /\ wide = [pc |-> "parked"]
    /\ codec = [pc |-> "parked"]
    /\ invs = <<>>

Init ==
    /\ pc = "serialize"
    /\ \E m \in Modules, d \in DirOptions :
          action = [code |-> m.code, exports |-> m.exports,
                    startIsFunc |-> m.startIsFunc,
                    capabilities |-> [dir |-> d]]
    /\ parameters \in ParameterChoices
    /\ json_bytes = <<>>
    /\ fs \in HostDirs
    /\ fsMode \in HostModes
    /\ (action.capabilities.dir = {} => fs = {<<>>, <<"tmp">>} /\ fsMode = "ok")
    /\ ctx = [built |-> FALSE, args |-> <<>>, preopened |-> {}]
    /\ mem = [i \in 0..(MemSize - 1) |-> Nul]
    /\ gbuf = [ptr |-> 0, len |-> 0]
    /\ allocArg = 0
    /\ O = 0
    /\ L2 = 0
    /\ O2 = 0
    /\ slice = <<>>
    /\ result = NoResult
    /\ trace = <<>>
    /\ trapped = "none"
    /\ fsFailed = "none"
    /\ oob = FALSE
    /\ AuxParked

(***************************************************************************)
(* execute_wasm, statement by statement.                                   *)
(***************************************************************************)

\* line 22: json_bytes = serde_json::to_vec(&parameters).unwrap()
Serialize ==
    /\ pc = "serialize"
    /\ json_bytes' = ToVec(parameters)
    /\ Log(<<"serialize">>)
    /\ Step
    /\ UNCHANGED <<action, parameters, fs, fsMode, ctx, mem, gbuf, allocArg,
                   O, L2, O2, slice, trapped, fsFailed, oob>>
    /\ UNCHANGED auxVars

\* lines 24, 40-59: build_wasi_context(&wasm_action.capabilities, len)?
BuildWasiContext ==
    /\ pc = "build_ctx"
    /\ LET dirOpt == action.capabilities.dir
           args == <<Decimal(Len(json_bytes))>>
       IN
       IF dirOpt = {}
       THEN /\ ctx' = [built |-> TRUE, args |-> args, preopened |-> Preopens(dirOpt)]
            /\ Log(<<"build">>)
            /\ Step
            /\ UNCHANGED <<fs, fsFailed>>
       ELSE LET dir == CHOOSE d \in dirOpt : TRUE IN
            IF ~CanCreate(fs, fsMode, dir)
            THEN \* line 52: create(dir).unwrap()
                 /\ Finish(Panic("52"))
                 /\ fsFailed' = "create"
                 /\ Log(<<"mkdir">>)
                 /\ UNCHANGED <<fs, ctx>>
            ELSE IF ~CanOpen(CreateDirAll(fs, dir), fsMode, dir)
            THEN \* line 53: File::open(dir)?
                 /\ Finish(Err(<<"open">>))
                 /\ fsFailed' = "open"
                 /\ fs' = CreateDirAll(fs, dir)
                 /\ Log(<<"mkdir", "open">>)
                 /\ UNCHANGED ctx
            ELSE /\ fs' = CreateDirAll(fs, dir)
                 /\ ctx' = [built |-> TRUE, args |-> args,
                            preopened |-> Preopens(dirOpt)]
                 /\ Log(<<"mkdir", "open", "preopen", "build">>)
                 /\ Step
                 /\ UNCHANGED fsFailed
    /\ UNCHANGED <<action, parameters, json_bytes, fsMode, mem, gbuf, allocArg,
                   O, L2, O2, slice, trapped, oob>>
    /\ UNCHANGED auxVars

\* lines 25-26: Wasi::new(&store, ctx); wasi.add_to_linker(&mut linker)?
\* (the linker is fresh: no name is defined twice)
AddToLinker ==
    /\ pc = "add_to_linker"
    /\ Log(<<"add_to_linker">>)
    /\ Step
    /\ UNCHANGED <<action, parameters, json_bytes, fs, fsMode, ctx, mem, gbuf,
                   allocArg, O, L2, O2, slice, trapped, fsFailed, oob>>
    /\ UNCHANGED auxVars

\* line 28: Module::new(store.engine(), &wasm_action.code)?
Compile ==
    /\ pc = "compile"
    /\ Log(<<"compile">>)
    /\ IF action.code = "malformed" THEN Finish(Err(<<"compile">>)) ELSE Step
    /\ UNCHANGED <<action, parameters, json_bytes, fs, fsMode, ctx, mem, gbuf,
                   allocArg, O, L2, O2, slice, trapped, fsFailed, oob>>
    /\ UNCHANGED auxVars

\* line 30: linker.instantiate(&module)?
Instantiate ==
    /\ pc = "instantiate"
    /\ Log(<<"instantiate">>)
    /\ IF action.code = "unlinkable" THEN Finish(Err(<<"link">>)) ELSE Step
    /\ UNCHANGED <<action, parameters, json_bytes, fs, fsMode, ctx, mem, gbuf,
                   allocArg, O, L2, O2, slice, trapped, fsFailed, oob>>
    /\ UNCHANGED auxVars

\* line 31: linker.instance("", &instance)?.get_default("")?
\* The engine's get_default returns the export `_start` when it is a
\* function, an error when it is something else, and a function that does
\* nothing when the module has no such export.
GetDefault ==
    /\ pc = "get_default"
    /\ Log(<<"get_default">>)
    /\ IF StartName \in action.exports /\ ~action.startIsFunc
       THEN Finish(Err(<<"default export is not a function">>))
       ELSE Step
    /\ UNCHANGED <<action, parameters, json_bytes, fs, fsMode, ctx, mem, gbuf,
                   allocArg, O, L2, O2, slice, trapped, fsFailed, oob>>
    /\ UNCHANGED auxVars


(***************************************************************************)
(* pass_string_arg (lines 61-90)                                           *)
(***************************************************************************)

\* lines 62-69: look wasm_memory_buffer_allocate_space up and call it with
\* json_bytes.len() as i32.  The guest returns, having chosen its buffer,
\* or traps.
AllocateSpace ==
    /\ pc = "alloc"
    /\ IF AllocateSpaceName \notin action.exports
       THEN /\ Finish(MissingExport(AllocateSpaceName))
            /\ UNCHANGED <<gbuf, allocArg, trace, trapped>>
       ELSE /\ allocArg' = AsI32(Len(json_bytes))
            /\ Log(<<"allocate">>)
            /\ \E trap \in BOOLEAN :
                  IF trap
                  THEN /\ Finish(Err(<<"trap">>))
                       /\ trapped' = "allocate"
                       /\ UNCHANGED gbuf
                  ELSE /\ Step
                       /\ \E p \in PtrChoices :
                             gbuf' = [ptr |-> p, len |-> AsI32(Len(json_bytes))]
                       /\ UNCHANGED trapped
    /\ UNCHANGED <<action, parameters, json_bytes, fs, fsMode, ctx, mem,
                   O, L2, O2, slice, fsFailed, oob>>
    /\ UNCHANGED auxVars

\* lines 71-76: look get_wasm_memory_buffer_pointer up (an error when it is
\* missing) and call it: memory_buffer_func().unwrap()
GetBufferPointer ==
    /\ pc = "get_ptr"
    /\ IF GetPointerName \notin action.exports
       THEN /\ Finish(MissingExport(GetPointerName))
            /\ UNCHANGED <<O, trace, trapped>>
       ELSE /\ Log(<<"get_pointer">>)
            /\ \E trap \in BOOLEAN :
                  IF trap
                  THEN /\ Finish(Panic("76"))
                       /\ trapped' = "get_pointer"
                       /\ UNCHANGED O
                  ELSE /\ Step
                       /\ O' = gbuf.ptr
                       /\ UNCHANGED trapped
    /\ UNCHANGED <<action, parameters, json_bytes, fs, fsMode, ctx, mem, gbuf,
                   allocArg, L2, O2, slice, fsFailed, oob>>
    /\ UNCHANGED auxVars

\* lines 78-81: instance.get_memory("memory").ok_or_else(..)?.data_ptr()
GetMemory ==
    /\ pc = "get_mem"
    /\ IF MemoryName \notin action.exports
       THEN /\ Finish(MissingExport(MemoryName))
            /\ UNCHANGED trace
       ELSE /\ Log(<<"get_memory">>)
            /\ Step
    /\ UNCHANGED <<action, parameters, json_bytes, fs, fsMode, ctx, mem, gbuf,
                   allocArg, O, L2, O2, slice, trapped, fsFailed, oob>>
    /\ UNCHANGED auxVars

\* lines 83-87: the unchecked copy of json_bytes to memory_base_ptr + offset.
\* Outside the memory it is undefined behaviour: the process faults, or the
\* bytes land wherever the addresses point.
CopyIn ==
    /\ pc = "copy_in"
    /\ Log(<<"copy_in">>)
    /\ IF InBounds(O, Len(json_bytes))
       THEN /\ mem' = Write(mem, O, json_bytes)
            /\ Step
            /\ UNCHANGED oob
       ELSE /\ oob' = TRUE
            /\ \E faults \in BOOLEAN :
                  IF faults
                  THEN Finish(Fault) /\ UNCHANGED mem
                  ELSE Step /\ mem' = Write(mem, O, json_bytes)
    /\ UNCHANGED <<action, parameters, json_bytes, fs, fsMode, ctx, gbuf,
                   allocArg, O, L2, O2, slice, trapped, fsFailed>>
    /\ UNCHANGED auxVars

(***************************************************************************)
(* line 35: main.call(&[])?                                                *)
(***************************************************************************)

\* What execute_wasm does when the entry point has trapped / has returned.
AfterMain_IgnoreTrap(trap) == Step
AfterMain(trap) == IF trap THEN Finish(Err(<<"trap">>)) ELSE Step

\* The guest runs: it traps, or it returns having written some bytes into
\* its memory and settled the buffer it will report.  A module without an
\* entry point got a function that does nothing.
CallMain ==
    /\ pc = "call_main"
    /\ Log(<<"entry">>)
    /\ IF StartName \notin action.exports
       THEN /\ AfterMain(FALSE)
            /\ UNCHANGED <<mem, gbuf, trapped>>
       ELSE \E trap \in BOOLEAN :
               /\ AfterMain(trap)
               /\ IF trap
                  THEN /\ trapped' = "entry"
                       /\ UNCHANGED <<mem, gbuf>>
                  ELSE /\ UNCHANGED trapped
                       /\ \E out \in GuestOutputs, o \in GuestOffsets, r \in Reports :
                             /\ mem' = Write(mem, o, out)
                             /\ gbuf' = Report(r, o, Len(out), gbuf)
    /\ UNCHANGED <<action, parameters, json_bytes, fs, fsMode, ctx, allocArg,
                   O, L2, O2, slice, fsFailed, oob>>
    /\ UNCHANGED auxVars

(***************************************************************************)
(* get_return_value (lines 92-119); its value is returned as Ok(..)        *)
(***************************************************************************)

\* lines 95-105: both functions are looked up and unwrapped.
LookupReturnFuncs ==
    /\ pc = "ret_lookup"
    /\ IF GetPointerName \notin action.exports THEN Finish(Panic("97"))
       ELSE IF GetLenName \notin action.exports THEN Finish(Panic("103"))
       ELSE Step
    /\ UNCHANGED <<action, parameters, json_bytes, fs, fsMode, ctx, mem, gbuf,
                   allocArg, O, L2, O2, slice, trace, trapped, fsFailed, oob>>
    /\ UNCHANGED auxVars

\* line 107: memory_buf_len = memory_buf_len_func().unwrap()
GetReturnLen ==
    /\ pc = "ret_len"
    /\ Log(<<"get_len">>)
    /\ \E trap \in BOOLEAN :
          IF trap
          THEN /\ Finish(Panic("107"))
               /\ trapped' = "get_len"
               /\ UNCHANGED L2
          ELSE /\ Step
               /\ L2' = gbuf.len
               /\ UNCHANGED trapped
    /\ UNCHANGED <<action, parameters, json_bytes, fs, fsMode, ctx, mem, gbuf,
                   allocArg, O, O2, slice, fsFailed, oob>>
    /\ UNCHANGED auxVars

\* line 109: memory_ptr_offset = memory_ptr_func().unwrap()
GetReturnPointer ==
    /\ pc = "ret_ptr"
    /\ Log(<<"get_pointer">>)
    /\ \E trap \in BOOLEAN :
          IF trap
          THEN /\ Finish(Panic("109"))
               /\ trapped' = "get_pointer2"
               /\ UNCHANGED O2
          ELSE /\ Step
               /\ O2' = gbuf.ptr
               /\ UNCHANGED trapped
    /\ UNCHANGED <<action, parameters, json_bytes, fs, fsMode, ctx, mem, gbuf,
                   allocArg, O, L2, slice, fsFailed, oob>>
    /\ UNCHANGED auxVars

\* The offset get_return_value reads at (line 114).
ReadOffset == O2

\* lines 111-116: the memory is looked up and unwrapped, and the slice of
\* memory_buf_len bytes at the offset is formed, unchecked.  Outside the
\* memory it is undefined behaviour: a fault, or whatever bytes lie there.
ReadSlice ==
    /\ pc = "ret_mem"
    /\ IF MemoryName \notin action.exports
       THEN /\ Finish(Panic("111"))
            /\ UNCHANGED <<slice, trace, oob>>
       ELSE /\ Log(<<"get_memory", "read">>)
            /\ IF InBounds(ReadOffset, L2)
               THEN /\ slice' = MemAt(mem, ReadOffset, L2)
                    /\ Step
                    /\ UNCHANGED oob
               ELSE /\ oob' = TRUE
                    /\ \E faults \in BOOLEAN :
                          IF faults
                          THEN Finish(Fault) /\ UNCHANGED slice
                          ELSE /\ Step
                               /\ \E f \in Fillers :
                                     slice' = View(mem, ReadOffset, L2, f)
    /\ UNCHANGED <<action, parameters, json_bytes, fs, fsMode, ctx, mem, gbuf,
                   allocArg, O, L2, O2, trapped, fsFailed>>
    /\ UNCHANGED auxVars

\* line 118 and line 37: serde_json::from_slice(..).unwrap(), wrapped in Ok.
Decode ==
    /\ pc = "ret_decode"
    /\ Log(<<"decode">>)
    /\ LET d == FromSlice(slice) IN
       IF d.kind = "DecodeError" THEN Finish(Panic("118")) ELSE Finish(d)
    /\ UNCHANGED <<action, parameters, json_bytes, fs, fsMode, ctx, mem, gbuf,
                   allocArg, O, L2, O2, slice, trapped, fsFailed, oob>>
    /\ UNCHANGED auxVars

Next ==
    \/ Serialize
    \/ BuildWasiContext
    \/ AddToLinker
    \/ Compile
    \/ Instantiate
    \/ GetDefault
    \/ AllocateSpace
    \/ GetBufferPointer
    \/ GetMemory
    \/ CopyIn
    \/ CallMain
    \/ LookupReturnFuncs
    \/ GetReturnLen
    \/ GetReturnPointer
    \/ ReadSlice
    \/ Decode

Spec == Init /\ [][Next]_vars

TypeOK ==
    /\ pc \in {PcOrder[i] : i \in 1..Len(PcOrder)}
    /\ result.kind \in {"none", "Err", "Success", "Failure", "panic", "fault"}
    /\ (pc = "done") = (result.kind # "none")


(***************************************************************************)
(* Properties.                                                             *)
(***************************************************************************)
Events == {trace[i] : i \in 1..Len(trace)}
Returned == result.kind \in {"Success", "Failure"}
GuestCalls == {"allocate", "get_pointer", "entry", "get_len"}
ProtocolEvents ==
    {"serialize", "allocate", "get_pointer", "copy_in", "entry", "get_len",
     "read", "decode"}
IsProtocolEvent(e) == e \in ProtocolEvents
Protocol == SelectSeq(trace, IsProtocolEvent)

\* C1: an invocation of a module that lacks one of the five required
\* exports, once the module is instantiated, with no guest call trapping and
\* every reported offset inside the memory, ends
\* with the host error that names the missing export, and has copied nothing
\* into guest memory and read nothing from it.
C1_MissingExportIsNamedError ==
    \A e \in AllExports :
        (pc = "done" /\ "instantiate" \in Events /\ action.code = "ok"
            /\ trapped = "none" /\ ~oob /\ e \notin action.exports)
        => /\ result = MissingExport(e)
           /\ "copy_in" \notin Events
           /\ "read" \notin Events

\* C2: an invocation that has ended, with the host's directories in order
\* and every offset the guest reported inside its memory, has yielded exactly
\* one of a host error, Success(value), Failure(value).
C2_EndsWithOneOfThree ==
    (pc = "done" /\ fsFailed = "none" /\ ~oob)
    => result.kind \in {"Err", "Success", "Failure"}

\* C3: when the entry point has trapped, the invocation has ended with a
\* host error and the entry-point call is the last thing it did: no
\* get-pointer, no get-length, no read, no decode after it.
C3_EntryTrapIsHostError ==
    trapped = "entry"
    => /\ pc = "done"
       /\ result.kind = "Err"
       /\ trace[Len(trace)] = "entry"

C3_Witness == trapped = "entry" /\ pc = "done" /\ "copy_in" \in Events

\* C4: when the bytes decoded are no well-formed tagged outcome, the
\* invocation ends with a host error.
C4_MalformedIsHostError ==
    (pc = "done" /\ "decode" \in Events /\ FromSlice(slice).kind = "DecodeError")
    => result.kind = "Err"

\* C5: when the bytes decoded are the encoding of {"Ok": v}, the invocation
\* returns Success(v), and when they are the encoding of {"Err": v} it
\* returns Failure(v), for every payload v, also one shaped like an outcome.
C5_TagDecidesBranch ==
    (pc = "done" /\ "decode" \in Events)
    => \A v \in Payloads :
          /\ slice = ToVec(Obj(OkTag, v)) => result = Success(v)
          /\ slice = ToVec(Obj(ErrTag, v)) => result = Failure(v)

C5_Witness ==
    /\ pc = "done"
    /\ slice = ToVec(Obj(ErrTag, Obj(OkTag, Num(0))))
    /\ result = Failure(Obj(OkTag, Num(0)))

\* C6: without a declared directory the environment has no pre-opened
\* directory and the host has created and opened none; with one, the
\* environment built has exactly the declared directory pre-opened.
C6_PreopenedIsDeclared ==
    /\ action.capabilities.dir = {}
        => /\ ctx.preopened = {}
           /\ "mkdir" \notin Events /\ "open" \notin Events
           /\ "preopen" \notin Events
           /\ fs = {<<>>, <<"tmp">>}
    /\ ctx.built => ctx.preopened = action.capabilities.dir
    /\ ~ctx.built => ctx.preopened = {}

C6_Witness ==
    /\ action.capabilities.dir = {}
    /\ ctx.built
    /\ <<"tmp">> \in fs
    /\ Returned

\* C7: when creating or opening the declared directory has failed, the
\* invocation has ended with a host error, the directory was tried once,
\* no module was compiled and no guest function called.
C7_DirFailureIsHostError ==
    fsFailed # "none"
    => /\ pc = "done"
       /\ result.kind = "Err"
       /\ Len(SelectSeq(trace, LAMBDA e : e = "mkdir")) = 1
       /\ "compile" \notin Events
       /\ Events \cap GuestCalls = {}

\* C8: no byte outside the guest's memory is read or written: a copy is
\* made only with its offset and length inside the memory, and an
\* invocation given an offset or length outside ends with the host error
\* OutOfBounds.
C8_CopiesAreBoundsChecked ==
    /\ ~oob
    /\ "copy_in" \in Events => InBounds(O, Len(json_bytes))
    /\ "read" \in Events => InBounds(O2, L2)
    /\ (pc = "done" /\ "get_memory" \in Events /\ "copy_in" \notin Events)
        => result = Err(<<"OutOfBounds">>)

\* C9 as stated: a successful invocation performs, in this order and once
\* each: serialize, allocate-space, get-pointer, copy in, entry point,
\* get-pointer, get-length, read, decode.
C9_OrderAsStated ==
    (pc = "done" /\ Returned)
    => Protocol = <<"serialize", "allocate", "get_pointer", "copy_in", "entry",
                    "get_pointer", "get_len", "read", "decode">>

\* C9 as amended: a successful invocation performs, in this order and once
\* each: serialize, allocate-space, get-pointer, copy in, entry point,
\* get-length, get-pointer, read, decode.
C9_OrderInCode ==
    (pc = "done" /\ Returned)
    => Protocol = <<"serialize", "allocate", "get_pointer", "copy_in", "entry",
                    "get_len", "get_pointer", "read", "decode">>

C9_Witness == pc = "done" /\ Returned /\ ~oob /\ O2 # O

\* C10: when the entry point starts, the L bytes of guest memory at O are
\* the serialized input; and the outcome returned is the decoding of the L2
\* bytes of guest memory at O2, the values reported after the entry point.
C10_DataIntegrity ==
    /\ pc = "call_main"
        => /\ InBounds(O, Len(json_bytes))
           /\ MemAt(mem, O, Len(json_bytes)) = json_bytes
    /\ (pc = "done" /\ Returned)
        => /\ InBounds(O2, L2)
           /\ result = FromSlice(MemAt(mem, O2, L2))


\* The place of the first / of the last event e before place i in the trace
\* (0 when there is none).
FirstIndex(e) ==
    IF e \in Events THEN Min({i \in 1..Len(trace) : trace[i] = e}) ELSE 0
LastBefore(i, e) ==
    LET before == {j \in 1..(i - 1) : trace[j] = e} IN
    IF before = {} THEN 0 ELSE CHOOSE j \in before : \A k \in before : k <= j

\* C12: each step depends on the one before: after a compile failure there
\* is no instantiation and no guest call; after a link failure no guest
\* call; for a module without an entry point allocate-space is never
\* called; and a host error ends the invocation at the step that failed.
C12_StepsDependOnPrevious ==
    /\ result = Err(<<"compile">>)
        => "instantiate" \notin Events /\ Events \cap GuestCalls = {}
    /\ result = Err(<<"link">>) => Events \cap GuestCalls = {}
    /\ (StartName \notin action.exports \/ ~action.startIsFunc)
        => "allocate" \notin Events
    /\ result.kind = "Err" => pc = "done"

\* C16: when get_return_value is reached, get_wasm_memory_buffer_pointer,
\* get_wasm_memory_buffer_len and memory are all exported, and no lookup
\* unwrapped in get_return_value (lines 97, 103, 111) has failed.
C16_ReturnLookupsCannotFail ==
    /\ pc \in {"ret_lookup", "ret_len", "ret_ptr", "ret_mem", "ret_decode"}
        => {GetPointerName, GetLenName, MemoryName} \subseteq action.exports
    /\ result.kind = "panic" => result.at \notin {"97", "103", "111"}

\* C17: a declared directory exists on the host once setup is past, unless
\* its creation failed, also when a later step fails; it is created before
\* the module is instantiated and before any guest function is called.
C17_DirCreatedBySetup ==
    \A d \in action.capabilities.dir :
        /\ (pc \notin {"serialize", "build_ctx"} /\ fsFailed # "create")
            => d \in fs /\ "mkdir" \in Events
        /\ \A i \in 1..Len(trace) :
              trace[i] \in GuestCalls \cup {"instantiate"}
              => LastBefore(i, "mkdir") > 0 /\ d \in fs

C17_Witness ==
    /\ action.capabilities.dir = {<<"data">>}
    /\ result = Err(<<"compile">>)
    /\ <<"data">> \in fs

\* C18: every copy into, read of and decode from guest memory uses a base
\* pointer obtained after the module was instantiated and after the last
\* guest call before it: no guest function is called between obtaining the
\* pointer and using it.
C18_MemoryViewIsFresh ==
    \A i \in 1..Len(trace) :
        trace[i] \in {"copy_in", "read", "decode"}
        => LET j == LastBefore(i, "get_memory") IN
           /\ j > 0
           /\ \A k \in (j + 1)..(i - 1) : trace[k] \notin GuestCalls
           /\ LastBefore(j, "instantiate") > 0

C18_Witness ==
    /\ pc = "done"
    /\ Returned
    /\ ~oob
    /\ Len(SelectSeq(trace, LAMBDA e : e = "get_memory")) = 2

\* C19: when allocate-space, get-pointer or get-length has trapped, the
\* invocation has ended with a host error, as for a trap of the entry
\* point, and the trapped call is the last thing it did.
C19_HandshakeTrapIsHostError ==
    (trapped \notin {"none", "entry"})
    => /\ pc = "done"
       /\ result.kind = "Err"
       /\ trace[Len(trace)] \in {"allocate", "get_pointer", "get_len"}


(***************************************************************************)
(* The studies below look at one computation of the invocation at a time;  *)
(* the single invocation of Spec is parked meanwhile.                      *)
(***************************************************************************)
invocationVars == <<pc, action, parameters, json_bytes, ctx, mem, gbuf,
                    allocArg, O, L2, O2, slice, result, trace, trapped,
                    fsFailed, oob>>
hostVars == <<fs, fsMode>>

InvocationParked ==
    /\ pc = "parked"
    /\ action = [code |-> "ok", exports |-> AllExports, startIsFunc |-> TRUE,
                 capabilities |-> [dir |-> {}]]
    /\ parameters = Obj0
    /\ json_bytes = <<>>
    /\ ctx = [built |-> FALSE, args |-> <<>>, preopened |-> {}]
    /\ mem = [i \in 0..(MemSize - 1) |-> Nul]
    /\ gbuf = [ptr |-> 0, len |-> 0]
    /\ allocArg = 0
    /\ O = 0
    /\ L2 = 0
    /\ O2 = 0
    /\ slice = <<>>
    /\ result = NoResult
    /\ trace = <<>>
    /\ trapped = "none"
    /\ fsFailed = "none"
    /\ oob = FALSE

HostParked == fs = {<<>>, <<"tmp">>} /\ fsMode = "ok"

(***************************************************************************)
(* The length of the serialized input, for any usize length (lines 24, 47, *)
(* 69, 86).  A length is written in two limbs, hi * 2^16 + lo, so that     *)
(* lengths beyond 2^31 - 1 can be stated.                                  *)
(***************************************************************************)
Limb == 2 ^ 16
Wide(hi, lo) == [hi |-> hi, lo |-> lo]
WideOf(n) == Wide(n \div Limb, n % Limb)

\* `len as i32` (line 69): the low 32 bits of the length, as a signed number.
AsI32Wide(len) ==
    LET h == len.hi % Limb IN
    IF h >= Limb \div 2 THEN (h - Limb) * Limb + len.lo ELSE h * Limb + len.lo

\* The quotient and the remainder of a length divided by ten.
DivMod10(len) ==
    LET t == (len.hi % 10) * Limb + len.lo IN
    [q |-> Wide(len.hi \div 10, t \div 10), r |-> t % 10]

\* format!("{}", arg_len) (line 47) of a length of any size.
RECURSIVE DecimalWide(_)
DecimalWide(len) ==
    IF len.hi = 0 /\ len.lo < 10 THEN <<Digits[len.lo + 1]>>
    ELSE DecimalWide(DivMod10(len).q) \o <<Digits[DivMod10(len).r + 1]>>

\* The lengths studied: around 0, 2^16, 2^31 and 2^32.
WideLengths ==
    {Wide(hi, lo) :
        hi \in {0, 1, Limb \div 2 - 1, Limb \div 2, Limb \div 2 + 1,
                Limb - 1, Limb, Limb + 1},
        lo \in {0, 1, 7, Limb - 1}}

WideInit ==
    /\ InvocationParked
    /\ HostParked
    /\ codec = [pc |-> "parked"]
    /\ invs = <<>>
    /\ \E len \in WideLengths :
          wide = [pc |-> "format", len |-> len, arg |-> <<>>, alloc |-> 0,
                  copied |-> Wide(0, 0)]

\* lines 24, 47: ctx_builder.arg(format!("{}", json_bytes.len()))
WideFormatArg ==
    /\ wide.pc = "format"
    /\ wide' = [wide EXCEPT !.pc = "alloc", !.arg = DecimalWide(wide.len)]
    /\ UNCHANGED <<invocationVars, hostVars, codec, invs>>

\* line 69: wasm_memory_buffer_allocate_space(json_bytes.len() as i32)
WideAllocate ==
    /\ wide.pc = "alloc"
    /\ wide' = [wide EXCEPT !.pc = "copy", !.alloc = AsI32Wide(wide.len)]
    /\ UNCHANGED <<invocationVars, hostVars, codec, invs>>

\* line 86: copy_from_nonoverlapping(json_bytes.as_ptr(), json_bytes.len())
WideCopy ==
    /\ wide.pc = "copy"
    /\ wide' = [wide EXCEPT !.pc = "done", !.copied = wide.len]
    /\ UNCHANGED <<invocationVars, hostVars, codec, invs>>

WideNext == WideFormatArg \/ WideAllocate \/ WideCopy

LenSpec == WideInit /\ [][WideNext]_vars

\* The number a string of decimal digits stands for.
RECURSIVE WideFromDecimal(_)
WideFromDecimal(digits) ==
    IF digits = <<>> THEN Wide(0, 0)
    ELSE LET acc == WideFromDecimal(SubSeq(digits, 1, Len(digits) - 1))
             t == acc.lo * 10 + DigitVal(digits[Len(digits)]) IN
         Wide(acc.hi * 10 + t \div Limb, t % Limb)

\* C11: for every length L of the serialized input, the argument of
\* allocate-space is L, the decimal argument of the guest reads L, and L
\* bytes are copied: no conversion changes the value.
C11_LengthIsExact ==
    wide.pc = "done"
    => /\ wide.alloc >= 0
       /\ WideOf(wide.alloc) = wide.len
       /\ WideFromDecimal(wide.arg) = wide.len
       /\ wide.copied = wide.len


(***************************************************************************)
(* The outcome codec: an outcome is encoded as the guest encodes it and    *)
(* decoded as get_return_value decodes it (line 118).                      *)
(***************************************************************************)
\* The largest number among the payloads studied.
CodecMaxNum == 12

CodecKeys == {OkTag, ErrTag, <<"e">>}
CodecLeaves ==
    {Num(n) : n \in 0..CodecMaxNum}
    \cup {Str(<<>>), Str(<<"x">>), Str(OkTag), Obj0}
CodecNested == CodecLeaves \cup {Obj(k, v) : k \in CodecKeys, v \in CodecLeaves}
CodecValues == CodecNested \cup {Obj(k, v) : k \in CodecKeys, v \in CodecNested}
CodecOutcomes ==
    {Success(v) : v \in CodecValues} \cup {Failure(v) : v \in CodecValues}

\* The bytes a guest writes for an outcome: the payload wrapped in an object
\* whose one key is the tag.
EncodeOutcome(x) ==
    ToVec(Obj(IF x.kind = "Success" THEN OkTag ELSE ErrTag, x.val))

CodecInit ==
    /\ InvocationParked
    /\ HostParked
    /\ wide = [pc |-> "parked"]
    /\ invs = <<>>
    /\ \E x \in CodecOutcomes :
          codec = [pc |-> "encode", outcome |-> x, bytes |-> <<>>,
                   decoded |-> DecodeError]

CodecEncode ==
    /\ codec.pc = "encode"
    /\ codec' = [codec EXCEPT !.pc = "decode",
                              !.bytes = EncodeOutcome(codec.outcome)]
    /\ UNCHANGED <<invocationVars, hostVars, wide, invs>>

\* line 118: serde_json::from_slice(bytes)
CodecDecode ==
    /\ codec.pc = "decode"
    /\ codec' = [codec EXCEPT !.pc = "done", !.decoded = FromSlice(codec.bytes)]
    /\ UNCHANGED <<invocationVars, hostVars, wide, invs>>

CodecNext == CodecEncode \/ CodecDecode

CodecSpec == CodecInit /\ [][CodecNext]_vars

\* C15: decoding the encoding of Success(v) gives Success(v) and decoding
\* the encoding of Failure(v) gives Failure(v), for every payload v.
C15_RoundTrip ==
    codec.pc = "done" => codec.decoded = codec.outcome

C15_Witness ==
    /\ codec.pc = "done"
    /\ codec.outcome = Failure(Obj(OkTag, Num(CodecMaxNum)))
    /\ codec.decoded.kind = "Failure"


(***************************************************************************)
(* Several invocations of execute_wasm on one host, each on its own        *)
(* thread: what each does to the host's directories and which directory    *)
(* its guest is granted (build_wasi_context, lines 40-59), from the build  *)
(* of its environment until execute_wasm returns and drops the instance.   *)
(***************************************************************************)
NumInvocations == 2
Invocations == 1..NumInvocations

PairInit ==
    /\ InvocationParked
    /\ wide = [pc |-> "parked"]
    /\ codec = [pc |-> "parked"]
    /\ fs \in HostDirs
    /\ fsMode \in HostModes
    /\ \E dirs \in [Invocations -> DirOptions] :
          invs = [i \in Invocations |->
                     [pc |-> "idle", dir |-> dirs[i], preopened |-> {},
                      fsBefore |-> {}, fsAfter |-> {}]]

\* lines 24, 40-59: build_wasi_context of invocation i
PairBuild(i) ==
    /\ invs[i].pc = "idle"
    /\ LET dirOpt == invs[i].dir IN
       IF dirOpt = {}
       THEN /\ invs' = [invs EXCEPT ![i].pc = "running",
                                    ![i].preopened = Preopens(dirOpt),
                                    ![i].fsBefore = fs, ![i].fsAfter = fs]
            /\ UNCHANGED fs
       ELSE LET dir == CHOOSE d \in dirOpt : TRUE IN
            IF ~CanCreate(fs, fsMode, dir)
            THEN /\ invs' = [invs EXCEPT ![i].pc = "panicked",
                                         ![i].fsBefore = fs, ![i].fsAfter = fs]
                 /\ UNCHANGED fs
            ELSE IF ~CanOpen(CreateDirAll(fs, dir), fsMode, dir)
            THEN /\ fs' = CreateDirAll(fs, dir)
                 /\ invs' = [invs EXCEPT ![i].pc = "failed",
                                         ![i].fsBefore = fs, ![i].fsAfter = fs']
            ELSE /\ fs' = CreateDirAll(fs, dir)
                 /\ invs' = [invs EXCEPT ![i].pc = "running",
                                         ![i].preopened = Preopens(dirOpt),
                                         ![i].fsBefore = fs, ![i].fsAfter = fs']
    /\ UNCHANGED <<invocationVars, fsMode, wide, codec>>

\* lines 25-38: the module runs with the environment and execute_wasm
\* returns (or ends otherwise): store, instance and environment are dropped.
PairReturn(i) ==
    /\ invs[i].pc = "running"
    /\ invs' = [invs EXCEPT ![i].pc = "done", ![i].preopened = {}]
    /\ UNCHANGED <<invocationVars, hostVars, wide, codec>>

PairNext == \E i \in Invocations : PairBuild(i) \/ PairReturn(i)

PairSpec == PairInit /\ [][PairNext]_vars

\* One directory lies in (or is) the other.
IsPrefix(p, q) == Len(p) <= Len(q) /\ SubSeq(q, 1, Len(p)) = p
Overlap(p, q) == IsPrefix(p, q) \/ IsPrefix(q, p)

\* C13: no two invocations running at the same time have access to the
\* same pre-opened host directory.
C13_DirectoryIsExclusive ==
    \A i, j \in Invocations :
        (i # j /\ invs[i].pc = "running" /\ invs[j].pc = "running")
        => \A p \in invs[i].preopened, q \in invs[j].preopened : ~Overlap(p, q)

\* C14: when one build of the environment for a directory has succeeded,
\* every other build for the same directory succeeds too, the directory is
\* there after it, and a build that found the directory left the host's
\* directories as they were.
C14_ProvisioningIsIdempotent ==
    \A i, j \in Invocations :
        (i # j /\ invs[i].dir # {} /\ invs[i].dir = invs[j].dir
            /\ invs[i].pc \in {"running", "done"} /\ invs[j].pc # "idle")
        => /\ invs[j].pc \in {"running", "done"}
           /\ invs[j].dir \subseteq invs[j].fsAfter
           /\ invs[j].dir \subseteq invs[j].fsBefore
                => invs[j].fsAfter = invs[j].fsBefore

C14_Witness ==
    /\ invs[1].dir = {<<"data">>} /\ invs[2].dir = {<<"data">>}
    /\ invs[1].pc = "done"
    /\ invs[2].pc = "running"
    /\ invs[1].fsBefore # invs[1].fsAfter
    /\ invs[2].fsBefore = invs[2].fsAfter

====
